---- MODULE Spec2Model ----
(***************************************************************************)
(* A model of the AutoTrader of src/autotrader.cc: the order / position /  *)
(* inventory state machine driven by the exchange's notifications, the     *)
(* quote computation of OrderBookMessageHandler, the Ichimoku indicator    *)
(* with its four circular buffers, and the circular-buffer update itself.  *)
(*                                                                         *)
(* unsigned long / long are machine words.  The model keeps the modular    *)
(* arithmetic of the code but at a scaled-down width of WordBits bits, so  *)
(* that the extreme values (the most negative long, a volume whose cast to *)
(* long is negative) are values that can be enumerated.                    *)
(***************************************************************************)
EXTENDS Integers, Sequences, FiniteSets, TLC

(***************************************************************************)
(* Bounds of the model.                                                    *)
(***************************************************************************)
WordBits == 16      \* width of long / unsigned long in the model
MaxSteps == 4       \* notifications delivered in one run
MaxId == 3          \* largest order id the exchange is sent / reports
MaxWindow == 3      \* largest capacity of the stand-alone sliding window
MaxPushes == 5      \* pushes into the stand-alone sliding window
MaxExchangeSteps == 5   \* notifications of one run of the well-behaved exchange
MaxExchangeId == 5      \* largest order id in a run of the well-behaved exchange

(***************************************************************************)
(* Program constants.                                                      *)
(***************************************************************************)
LOT_SIZE == 200
UNLOAD == 25
POSITION_LIMIT == 100
TICK_SIZE_IN_CENTS == 100
conversion_line_size == 9
baseline_size == 26
leading_span_b_window == 52
TOP_LEVEL_COUNT == 5

(***************************************************************************)
(* Machine arithmetic.                                                     *)
(***************************************************************************)
Word == 2 ^ WordBits
HalfWord == 2 ^ (WordBits - 1)
MinLong == 0 - HalfWord

\* conversion to unsigned long: the value modulo 2^w
ToUnsigned(x) == x % Word

\* static_cast<long>(u) of an unsigned long: two's complement
ToLong(u) == IF (u % Word) >= HalfWord THEN (u % Word) - Word ELSE u % Word

\* the value a signed operation leaves in a long register
WrapLong(x) == ToLong(x % Word)

\* C++ integer division truncates toward zero
TruncDiv(a, b) ==
  IF a >= 0 THEN a \div b ELSE 0 - ((0 - a) \div b)

Min(a, b) == IF a <= b THEN a ELSE b
Max(a, b) == IF a >= b THEN a ELSE b
Abs(x) == IF x < 0 THEN 0 - x ELSE x

(***************************************************************************)
(* std::unordered_map as a function on its keys.                           *)
(***************************************************************************)
EmptyMap == [k \in {} |-> 0]

MapSet(m, k, v) == [x \in (DOMAIN m) \cup {k} |-> IF x = k THEN v ELSE m[x]]

\* operator[]: a missing key is value-initialised to 0
MapGet(m, k) == IF k \in DOMAIN m THEN m[k] ELSE 0

\* emplace: inserts only when the key is absent
MapEmplace(m, k, v) == IF k \in DOMAIN m THEN m ELSE MapSet(m, k, v)

RECURSIVE SeqSum(_)
SeqSum(s) == IF s = << >> THEN 0 ELSE Head(s) + SeqSum(Tail(s))

VARIABLES
  trader,     \* the AutoTrader object's members
  ichimoku,   \* the indicator's file-scope buffers, sums, indices, counts
  sent,       \* instructions the last handler sent to the exchange
  event,      \* the notification the last handler was called with
  closed,     \* ids for which a zero-remaining status has been processed
  issued,     \* ids sent out so far in InsertOrder / HedgeOrder
  hedged,     \* ids sent out so far in HedgeOrder
  steps,      \* notifications delivered so far
  before,     \* trader, closed and issued as they were when the last
              \* handler was called
  window,     \* a stand-alone circular buffer: buffer, index, count, sum
  windowSize, \* its capacity (maxSize)
  pushed,     \* the values pushed into it, oldest first
  live,       \* the well-behaved exchange's open orders: id -> side and
              \* volume not yet filled
  net         \* volume it reported filled: bids minus asks

vars == << trader, ichimoku, sent, event, closed, issued, hedged, steps, before,
           window, windowSize, pushed, live, net >>

traderVars == << trader, ichimoku, sent, event, closed, issued, hedged, steps,
                before, live, net >>
windowVars == << window, windowSize, pushed >>
exchangeVars == << live, net >>

(***************************************************************************)
(* Messages.                                                               *)
(***************************************************************************)
NoEvent ==
  [type |-> "None", instrument |-> "NONE", book |-> 0, id |-> 0, price |-> 0,
   volume |-> 0, remaining |-> 0, fees |-> 0]

InsertOrder(id, side, price, volume) ==
  [msg |-> "Insert", id |-> id, side |-> side, price |-> price, volume |-> volume]

CancelOrder(id) ==
  [msg |-> "Cancel", id |-> id, side |-> "NONE", price |-> 0, volume |-> 0]

\* the hedge price is one of two fixed tick-rounded extremes, kept by name
HedgeOrder(id, side, volume) ==
  [msg |-> "Hedge", id |-> id, side |-> side,
   price |-> IF side = "BUY" THEN "MAX_ASK_NEAREST_TICK" ELSE "MIN_BID_NEAREST_TICK",
   volume |-> volume]

(***************************************************************************)
(* updateCircularBufferWithNewValue.  The buffer is a sequence, slot       *)
(* index (0-based in the code) being element index + 1.  The result holds  *)
(* the four reference parameters after the call.                           *)
(***************************************************************************)
updateCircularBufferWithNewValueNoEvict(buffer, index, count, newValue, sum, maxSize) ==
  [buffer |-> [buffer EXCEPT ![index + 1] = newValue],
   sum    |-> ToUnsigned(sum + newValue),
   count  |-> IF count < maxSize THEN count + 1 ELSE count,
   index  |-> (index + 1) % maxSize]

\* the update that never counts the slot it fills
updateCircularBufferWithNewValueNoCount(buffer, index, count, newValue, sum, maxSize) ==
  [buffer |-> [buffer EXCEPT ![index + 1] = newValue],
   sum    |-> ToUnsigned(sum + newValue),
   count  |-> count,
   index  |-> (index + 1) % maxSize]

updateCircularBufferWithNewValue(buffer, index, count, newValue, sum, maxSize) ==
  IF count < maxSize
    THEN [buffer |-> [buffer EXCEPT ![index + 1] = newValue],
          sum    |-> ToUnsigned(sum + newValue),
          count  |-> count + 1,
          index  |-> (index + 1) % maxSize]
    ELSE [buffer |-> [buffer EXCEPT ![index + 1] = newValue],
          sum    |-> ToUnsigned(ToUnsigned(sum - buffer[index + 1]) + newValue),
          count  |-> count,
          index  |-> (index + 1) % maxSize]

(***************************************************************************)
(* The indicator's file-scope state.                                       *)
(***************************************************************************)
Zeros(n) == [i \in 1..n |-> 0]

IchimokuInit ==
  [conversionLineBuffer |-> Zeros(conversion_line_size),
   baselineBuffer       |-> Zeros(baseline_size),
   leadingSpanBBuffer   |-> Zeros(leading_span_b_window),
   laggingSpanBuffer    |-> Zeros(baseline_size),
   conversionLineSum    |-> 0,
   baselineSum          |-> 0,
   leadingSpanBSum      |-> 0,
   conversionLineIndex  |-> 0,
   baselineIndex        |-> 0,
   leadingSpanBIndex    |-> 0,
   laggingSpanIndex     |-> 0,
   conversionLineCount  |-> 0,
   baselineCount        |-> 0,
   leadingSpanBCount    |-> 0,
   laggingSpanCount     |-> 0]

\* unsigned long a / b.  With b = 0 the division is undefined; the divisors
\* of the indicator are its counts, which stay in the state, so a zero
\* divisor shows in the state whatever the quotient is taken to be (here 0).
Quotient(a, b) == IF b = 0 THEN 0 ELSE a \div b

\* (bidPrices[0] + askPrices[0]) >> 1 on unsigned long
MidPrice(book) == ToUnsigned(book.bidPrices[1] + book.askPrices[1]) \div 2

\* the lagging-span comparison reading the slot written one sample earlier
LaggingComparedSlotPrevious(index, size) == (index + size - 1) % size

\* (laggingSpanIndex - baseline_size + laggingSpanBuffer.size()) %
\* laggingSpanBuffer.size(): the int difference is converted to unsigned long
LaggingComparedSlot(index, size) ==
  ToUnsigned(ToUnsigned(index - baseline_size) + size) % size

(***************************************************************************)
(* AutoTrader::Ichimoku: the state after the sample, the signal and the    *)
(* two price conditions the signal is made of.                             *)
(***************************************************************************)
Ichimoku(g, book) ==
  LET currentPrice == MidPrice(book)
      cl == updateCircularBufferWithNewValue(g.conversionLineBuffer,
              g.conversionLineIndex, g.conversionLineCount, currentPrice,
              g.conversionLineSum, conversion_line_size)
      conversionLine == Quotient(cl.sum, cl.count)
      bl == updateCircularBufferWithNewValue(g.baselineBuffer,
              g.baselineIndex, g.baselineCount, conversionLine,
              g.baselineSum, baseline_size)
      baseline == Quotient(bl.sum, bl.count)
      leadingSpanA == ToUnsigned(conversionLine + baseline) \div 2
      lb == updateCircularBufferWithNewValue(g.leadingSpanBBuffer,
              g.leadingSpanBIndex, g.leadingSpanBCount, conversionLine,
              g.leadingSpanBSum, leading_span_b_window)
      leadingSpanB == ToUnsigned(lb.sum + baseline) \div 2
      \* the lagging-span call is handed leadingSpanBSum as its running sum
      lg == updateCircularBufferWithNewValue(g.laggingSpanBuffer,
              g.laggingSpanIndex, g.laggingSpanCount, currentPrice,
              lb.sum, baseline_size)
      laggingSpan == lg.buffer[lg.index + 1]
      size == Len(lg.buffer)
      compared == lg.buffer[LaggingComparedSlot(lg.index, size) + 1]
      priceAboveCloud == currentPrice > Min(leadingSpanA, leadingSpanB)
      priceBelowCloud == currentPrice < Max(leadingSpanA, leadingSpanB)
      priceAboveConversionAndBase ==
        currentPrice > conversionLine /\ currentPrice > baseline
      priceBelowConversionAndBase ==
        currentPrice < conversionLine /\ currentPrice < baseline
      laggingSpanAbovePrice == laggingSpan > compared
      laggingSpanBelowPrice == laggingSpan < compared
      buy  == (priceAboveCloud \/ priceAboveConversionAndBase) /\ laggingSpanAbovePrice
      sell == (priceBelowCloud \/ priceBelowConversionAndBase) /\ laggingSpanBelowPrice
  IN [g |-> [conversionLineBuffer |-> cl.buffer,
             baselineBuffer       |-> bl.buffer,
             leadingSpanBBuffer   |-> lb.buffer,
             laggingSpanBuffer    |-> lg.buffer,
             conversionLineSum    |-> cl.sum,
             baselineSum          |-> bl.sum,
             leadingSpanBSum      |-> lg.sum,
             conversionLineIndex  |-> cl.index,
             baselineIndex        |-> bl.index,
             leadingSpanBIndex    |-> lb.index,
             laggingSpanIndex     |-> lg.index,
             conversionLineCount  |-> cl.count,
             baselineCount        |-> bl.count,
             leadingSpanBCount    |-> lb.count,
             laggingSpanCount     |-> lg.count],
      signal |-> IF sell THEN "SELL" ELSE IF buy THEN "BUY" ELSE "NEUTRAL",
      priceUp   |-> priceAboveCloud \/ priceAboveConversionAndBase,
      priceDown |-> priceBelowCloud \/ priceBelowConversionAndBase]

(***************************************************************************)
(* WeightedAverageSpread.  The code accumulates in double; every partial   *)
(* sum is an integer far below 2^53, so the sums are exact and the result  *)
(* is the rational num / den (den = 0 standing for the returned 0.0).      *)
(***************************************************************************)
RECURSIVE SpreadSums(_, _)
SpreadSums(book, i) ==
  IF i > TOP_LEVEL_COUNT THEN [total |-> 0, weighted |-> 0]
  ELSE LET rest == SpreadSums(book, i + 1)
       IN IF book.askPrices[i] # 0 /\ book.bidPrices[i] # 0
            THEN LET spread == ToUnsigned(book.askPrices[i] - book.bidPrices[i]) \div 2
                     spreadVolume == Min(book.askVolumes[i], book.bidVolumes[i])
                 IN [total    |-> rest.total + spreadVolume,
                     weighted |-> rest.weighted + spread * spreadVolume]
            ELSE rest

WeightedAverageSpread(book) ==
  LET s == SpreadSums(book, 1)
  IN IF s.total > 0 THEN [num |-> s.weighted, den |-> s.total]
                    ELSE [num |-> 0, den |-> 1]

(***************************************************************************)
(* The AutoTrader object after construction (member initialisers).         *)
(***************************************************************************)
TraderInit ==
  [mNextMessageId   |-> 1,
   mAskId           |-> 0,
   mBidId           |-> 0,
   mAskPrice        |-> 0,
   mBidPrice        |-> 0,
   mPosition        |-> 0,
   mHedges          |-> 0,
   mAsks            |-> {},
   mBids            |-> {},
   shortInventory   |-> EmptyMap,
   longInventory    |-> EmptyMap,
   lotSize          |-> EmptyMap,
   PendingCancelAsk |-> FALSE,
   PendingCancelBid |-> FALSE]

(***************************************************************************)
(* The quote computation at the head of OrderBookMessageHandler.           *)
(***************************************************************************)
\* (unsigned long) of the double n / d; below zero the conversion is what
\* the truncating signed conversion of the build leaves in the register
DoubleToUnsigned(n, d) == ToUnsigned(TruncDiv(n, d))

RoundDownToTick(p) == (p \div TICK_SIZE_IN_CENTS) * TICK_SIZE_IN_CENTS

priceAdjustment(mPosition) ==
  ToUnsigned(WrapLong(WrapLong(0 - TruncDiv(mPosition, LOT_SIZE)) * TICK_SIZE_IN_CENTS))

\* the ask size without the clamp to the remaining capacity
askQuantityUnclamped(mPosition) == LOT_SIZE

askQuantity(mPosition) ==
  Min(LOT_SIZE, ToUnsigned(WrapLong(POSITION_LIMIT + mPosition)))

\* the bid size without the clamp to the remaining capacity
bidQuantityUnclamped(mPosition) == LOT_SIZE

bidQuantity(mPosition) ==
  Min(LOT_SIZE, ToUnsigned(WrapLong(POSITION_LIMIT - mPosition)))

newAskPrice(mPosition, book) ==
  LET w == WeightedAverageSpread(book)
      base == ToUnsigned(book.askPrices[1] + priceAdjustment(mPosition))
  IN IF book.askPrices[1] # 0
       THEN RoundDownToTick(DoubleToUnsigned(base * w.den + w.num, w.den))
       ELSE 0

newBidPrice(mPosition, book) ==
  LET w == WeightedAverageSpread(book)
      base == ToUnsigned(book.bidPrices[1] + priceAdjustment(mPosition))
  IN IF book.bidPrices[1] # 0
       THEN RoundDownToTick(DoubleToUnsigned(base * w.den - w.num, w.den))
       ELSE 0

(***************************************************************************)
(* The cancel / insert block of one side.  c = [t |-> the trader's         *)
(* members, out |-> the instructions sent so far by this handler].         *)
(***************************************************************************)
\* the ask block raising the pending-cancel flag with no order to cancel
ReplaceAskFlagWithoutOrder(c, price, quantity) ==
  IF price # 0 /\ price # c.t.mAskPrice
    THEN LET c1 == [t   |-> [c.t EXCEPT !.PendingCancelAsk = TRUE],
                    out |-> IF c.t.mAskId # 0
                              THEN Append(c.out, CancelOrder(c.t.mAskId))
                              ELSE c.out]
         IN [c1 EXCEPT !.t.mAskPrice = price]
    ELSE c

\* the ask block leaving the quoted price as it was
ReplaceAskPriceNotRecorded(c, price, quantity) ==
  IF price # 0 /\ price # c.t.mAskPrice
    THEN LET c1 == IF c.t.mAskId # 0
                     THEN [t   |-> [c.t EXCEPT !.PendingCancelAsk = TRUE],
                           out |-> Append(c.out, CancelOrder(c.t.mAskId))]
                     ELSE c
             id == c1.t.mNextMessageId
         IN IF ~c1.t.PendingCancelAsk /\ quantity > 0
              THEN [t   |-> [c1.t EXCEPT !.mAskId = id,
                                         !.mNextMessageId = ToUnsigned(id + 1),
                                         !.mAsks = @ \cup {id}],
                    out |-> Append(c1.out, InsertOrder(id, "SELL", price, quantity))]
              ELSE c1
    ELSE c

\* the ask block recording the quoted price only next to an insert
ReplaceAskRecordsOnInsert(c, price, quantity) ==
  IF price # 0 /\ price # c.t.mAskPrice
    THEN LET c1 == IF c.t.mAskId # 0
                     THEN [t   |-> [c.t EXCEPT !.PendingCancelAsk = TRUE],
                           out |-> Append(c.out, CancelOrder(c.t.mAskId))]
                     ELSE c
             id == c1.t.mNextMessageId
         IN IF ~c1.t.PendingCancelAsk /\ quantity > 0
              THEN [t   |-> [c1.t EXCEPT !.mAskId = id,
                                         !.mNextMessageId = ToUnsigned(id + 1),
                                         !.mAsks = @ \cup {id},
                                         !.mAskPrice = price],
                    out |-> Append(c1.out, InsertOrder(id, "SELL", price, quantity))]
              ELSE c1
    ELSE c

ReplaceAsk(c, price, quantity) ==
  IF price # 0 /\ price # c.t.mAskPrice
    THEN LET c1 == IF c.t.mAskId # 0
                     THEN [t   |-> [c.t EXCEPT !.PendingCancelAsk = TRUE],
                           out |-> Append(c.out, CancelOrder(c.t.mAskId))]
                     ELSE c
             id == c1.t.mNextMessageId
             c2 == IF ~c1.t.PendingCancelAsk /\ quantity > 0
                     THEN [t   |-> [c1.t EXCEPT !.mAskId = id,
                                                !.mNextMessageId = ToUnsigned(id + 1),
                                                !.mAsks = @ \cup {id}],
                           out |-> Append(c1.out, InsertOrder(id, "SELL", price, quantity))]
                     ELSE c1
         IN [c2 EXCEPT !.t.mAskPrice = price]
    ELSE c

\* the bid block taking the id without advancing the counter
ReplaceBidNoIncrement(c, price, quantity) ==
  IF price # 0 /\ price # c.t.mBidPrice
    THEN LET c1 == IF c.t.mBidId # 0
                     THEN [t   |-> [c.t EXCEPT !.PendingCancelBid = TRUE],
                           out |-> Append(c.out, CancelOrder(c.t.mBidId))]
                     ELSE c
             id == c1.t.mNextMessageId
             c2 == IF ~c1.t.PendingCancelBid /\ quantity > 0
                     THEN [t   |-> [c1.t EXCEPT !.mBidId = id,
                                                !.mBids = @ \cup {id}],
                           out |-> Append(c1.out, InsertOrder(id, "BUY", price, quantity))]
                     ELSE c1
         IN [c2 EXCEPT !.t.mBidPrice = price]
    ELSE c

ReplaceBid(c, price, quantity) ==
  IF price # 0 /\ price # c.t.mBidPrice
    THEN LET c1 == IF c.t.mBidId # 0
                     THEN [t   |-> [c.t EXCEPT !.PendingCancelBid = TRUE],
                           out |-> Append(c.out, CancelOrder(c.t.mBidId))]
                     ELSE c
             id == c1.t.mNextMessageId
             c2 == IF ~c1.t.PendingCancelBid /\ quantity > 0
                     THEN [t   |-> [c1.t EXCEPT !.mBidId = id,
                                                !.mNextMessageId = ToUnsigned(id + 1),
                                                !.mBids = @ \cup {id}],
                           out |-> Append(c1.out, InsertOrder(id, "BUY", price, quantity))]
                     ELSE c1
         IN [c2 EXCEPT !.t.mBidPrice = price]
    ELSE c

(***************************************************************************)
(* OrderBookMessageHandler: [t, out, g] after the call.                    *)
(***************************************************************************)
\* the signal-driven blocks
SignalBlocks(c, signal, size, ask, bid, askQ, bidQ) ==
  IF size >= 52 /\ signal = "BUY" THEN ReplaceBid(c, bid, bidQ)
  ELSE IF signal = "SELL" THEN ReplaceAsk(c, ask, askQ)
  ELSE c

\* the profit-taking loops.  The block of an entry that qualifies sets the
\* quoted price to the target, so the blocks of the entries after it do
\* nothing, whatever order the map is walked in: each loop is its block run
\* once if some entry qualifies.
LongLoop(c, currentPrice, ask, askQ) ==
  IF \E id \in DOMAIN c.t.longInventory : c.t.longInventory[id] < currentPrice
    THEN ReplaceAsk(c, ask, askQ)
    ELSE c

ShortLoop(c, currentPrice, bid, bidQ) ==
  IF \E id \in DOMAIN c.t.shortInventory : c.t.shortInventory[id] > currentPrice
    THEN ReplaceBid(c, bid, bidQ)
    ELSE c

ProfitTaking(c, currentPrice, ask, bid, askQ, bidQ) ==
  IF c.t.mPosition >= UNLOAD \/ c.t.mPosition <= 0 - UNLOAD
    THEN CHOOSE r \in {ShortLoop(c1, currentPrice, bid, bidQ) :
                         c1 \in {LongLoop(c, currentPrice, ask, askQ)}} : TRUE
    ELSE c

\* The body of the test for the future.  Each statement acts on the one
\* state its predecessor left: afterAsk, afterBid, afterSignal and afterLoops
\* hold the state after lines 243-258, 259-274, 276-314 and 317-370.
FutureBookUpdate(t, g, book) ==
  LET currentPrice == MidPrice(book)
      ask  == newAskPrice(t.mPosition, book)
      bid  == newBidPrice(t.mPosition, book)
      askQ == askQuantity(t.mPosition)
      bidQ == bidQuantity(t.mPosition)
      ich  == Ichimoku(g, book)
      afterAsk    == {ReplaceAsk([t |-> t, out |-> << >>], ask, askQ)}
      afterBid    == {ReplaceBid(c, bid, bidQ) : c \in afterAsk}
      afterSignal == {SignalBlocks(c, ich.signal, Len(g.leadingSpanBBuffer),
                                   ask, bid, askQ, bidQ) : c \in afterBid}
      afterLoops  == {ProfitTaking(c, currentPrice, ask, bid, askQ, bidQ) :
                        c \in afterSignal}
  IN CHOOSE r \in {[t |-> c.t, out |-> c.out, g |-> ich.g] :
                     c \in afterLoops} : TRUE

\* the handler acting on the book of any instrument
OrderBookMessageHandlerAnyInstrument(t, g, instrument, book) ==
  FutureBookUpdate(t, g, book)

OrderBookMessageHandler(t, g, instrument, book) ==
  IF instrument = "FUTURE"
    THEN FutureBookUpdate(t, g, book)
    ELSE [t |-> t, out |-> << >>, g |-> g]

(***************************************************************************)
(* OrderFilledMessageHandler.  std::abs of the most negative long is       *)
(* undefined: the comparison then comes out either way (absOfMin).         *)
(***************************************************************************)
WithinLimit(x, absOfMin) ==
  IF x = MinLong THEN absOfMin ELSE Abs(x) <= POSITION_LIMIT

\* the handler hedging only the fills it applies to the position
OrderFilledMessageHandlerHedgeIfApplied(t, clientOrderId, price, volume, absOfMin) ==
  LET id == t.mNextMessageId
      out0 == << >>
  IN IF clientOrderId \in t.mAsks
       THEN LET newPosition == WrapLong(t.mPosition - ToLong(volume))
                ok == WithinLimit(WrapLong(newPosition + t.mHedges), absOfMin)
                        /\ WithinLimit(newPosition, absOfMin)
            IN [t |-> [t EXCEPT !.mPosition = IF ok THEN newPosition ELSE @,
                                !.mNextMessageId = IF ok THEN ToUnsigned(id + 1) ELSE @,
                                !.shortInventory = MapEmplace(@, clientOrderId, price),
                                !.lotSize = MapEmplace(@, clientOrderId, volume)],
                out |-> IF ok THEN << HedgeOrder(id, "BUY", volume) >> ELSE out0]
     ELSE IF clientOrderId \in t.mBids
       THEN LET newPosition == WrapLong(t.mPosition + ToLong(volume))
                ok == WithinLimit(WrapLong(newPosition - t.mHedges), absOfMin)
                        /\ WithinLimit(newPosition, absOfMin)
            IN [t |-> [t EXCEPT !.mPosition = IF ok THEN newPosition ELSE @,
                                !.mNextMessageId = IF ok THEN ToUnsigned(id + 1) ELSE @,
                                !.longInventory = MapEmplace(@, clientOrderId, price),
                                !.lotSize = MapEmplace(@, clientOrderId, volume)],
                out |-> IF ok THEN << HedgeOrder(id, "SELL", volume) >> ELSE out0]
     ELSE [t |-> [t EXCEPT !.lotSize = MapEmplace(@, clientOrderId, volume)],
           out |-> out0]

OrderFilledMessageHandler(t, clientOrderId, price, volume, absOfMin) ==
  LET id == t.mNextMessageId
  IN IF clientOrderId \in t.mAsks
       THEN LET newPosition == WrapLong(t.mPosition - ToLong(volume))
                ok == WithinLimit(WrapLong(newPosition + t.mHedges), absOfMin)
                        /\ WithinLimit(newPosition, absOfMin)
            IN [t |-> [t EXCEPT !.mPosition = IF ok THEN newPosition ELSE @,
                                !.mNextMessageId = ToUnsigned(id + 1),
                                !.shortInventory = MapEmplace(@, clientOrderId, price),
                                !.lotSize = MapEmplace(@, clientOrderId, volume)],
                out |-> << HedgeOrder(id, "BUY", volume) >>]
     ELSE IF clientOrderId \in t.mBids
       THEN LET newPosition == WrapLong(t.mPosition + ToLong(volume))
                ok == WithinLimit(WrapLong(newPosition - t.mHedges), absOfMin)
                        /\ WithinLimit(newPosition, absOfMin)
            IN [t |-> [t EXCEPT !.mPosition = IF ok THEN newPosition ELSE @,
                                !.mNextMessageId = ToUnsigned(id + 1),
                                !.longInventory = MapEmplace(@, clientOrderId, price),
                                !.lotSize = MapEmplace(@, clientOrderId, volume)],
                out |-> << HedgeOrder(id, "SELL", volume) >>]
     ELSE [t |-> [t EXCEPT !.lotSize = MapEmplace(@, clientOrderId, volume)],
           out |-> << >>]

(***************************************************************************)
(* OrderStatusMessageHandler.  It sends nothing.                           *)
(***************************************************************************)
\* the handler clearing the tracked id but leaving the pending-cancel flag
OrderStatusMessageHandlerKeepsFlag(t, clientOrderId, fillVolume, remainingVolume, fees) ==
  IF remainingVolume = 0
    THEN LET t1 == IF clientOrderId = t.mAskId
                     THEN [t EXCEPT !.mAskId = 0]
                   ELSE IF clientOrderId = t.mBidId
                     THEN [t EXCEPT !.mBidId = 0]
                   ELSE t
         IN [t1 EXCEPT !.mAsks = @ \ {clientOrderId},
                       !.mBids = @ \ {clientOrderId}]
    ELSE [t EXCEPT
            !.longInventory  = MapSet(@, clientOrderId,
                                 ToUnsigned(MapGet(@, clientOrderId) + fees)),
            !.shortInventory = MapSet(@, clientOrderId,
                                 ToUnsigned(MapGet(@, clientOrderId) - fees)),
            !.lotSize        = MapSet(@, clientOrderId, remainingVolume)]

\* the handler clearing the tracked id but leaving the active sets
OrderStatusMessageHandlerKeepsSets(t, clientOrderId, fillVolume, remainingVolume, fees) ==
  IF remainingVolume = 0
    THEN IF clientOrderId = t.mAskId
           THEN [t EXCEPT !.mAskId = 0, !.PendingCancelAsk = FALSE]
         ELSE IF clientOrderId = t.mBidId
           THEN [t EXCEPT !.mBidId = 0, !.PendingCancelBid = FALSE]
         ELSE t
    ELSE [t EXCEPT
            !.longInventory  = MapSet(@, clientOrderId,
                                 ToUnsigned(MapGet(@, clientOrderId) + fees)),
            !.shortInventory = MapSet(@, clientOrderId,
                                 ToUnsigned(MapGet(@, clientOrderId) - fees)),
            !.lotSize        = MapSet(@, clientOrderId, remainingVolume)]

OrderStatusMessageHandler(t, clientOrderId, fillVolume, remainingVolume, fees) ==
  IF remainingVolume = 0
    THEN LET t1 == IF clientOrderId = t.mAskId
                     THEN [t EXCEPT !.mAskId = 0, !.PendingCancelAsk = FALSE]
                   ELSE IF clientOrderId = t.mBidId
                     THEN [t EXCEPT !.mBidId = 0, !.PendingCancelBid = FALSE]
                   ELSE t
         IN [t1 EXCEPT !.mAsks = @ \ {clientOrderId},
                       !.mBids = @ \ {clientOrderId}]
    ELSE [t EXCEPT
            !.longInventory  = MapSet(@, clientOrderId,
                                 ToUnsigned(MapGet(@, clientOrderId) + fees)),
            !.shortInventory = MapSet(@, clientOrderId,
                                 ToUnsigned(MapGet(@, clientOrderId) - fees)),
            !.lotSize        = MapSet(@, clientOrderId, remainingVolume)]

(***************************************************************************)
(* ErrorMessageHandler.                                                    *)
(***************************************************************************)
ErrorMessageHandler(t, clientOrderId) ==
  IF clientOrderId # 0 /\ (clientOrderId \in t.mAsks \/ clientOrderId \in t.mBids)
    THEN OrderStatusMessageHandler(t, clientOrderId, 0, 0, 0)
    ELSE t

\* does the error handler pass the id on to the status handler
ErrorForwards(t, clientOrderId) ==
  clientOrderId # 0 /\ (clientOrderId \in t.mAsks \/ clientOrderId \in t.mBids)

(***************************************************************************)
(* The notifications the exchange delivers.                                *)
(***************************************************************************)
Level(price, volume) == [price |-> price, volume |-> volume]
NoLevel == Level(0, 0)

\* a snapshot of TOP_LEVEL_COUNT levels a side, absent levels being zero
Book(asks, bids) ==
  [askPrices  |-> [i \in 1..TOP_LEVEL_COUNT |->
                     IF i <= Len(asks) THEN asks[i].price ELSE 0],
   askVolumes |-> [i \in 1..TOP_LEVEL_COUNT |->
                     IF i <= Len(asks) THEN asks[i].volume ELSE 0],
   bidPrices  |-> [i \in 1..TOP_LEVEL_COUNT |->
                     IF i <= Len(bids) THEN bids[i].price ELSE 0],
   bidVolumes |-> [i \in 1..TOP_LEVEL_COUNT |->
                     IF i <= Len(bids) THEN bids[i].volume ELSE 0]]

Books ==
  << Book(<< Level(1100, 30), Level(1200, 10) >>, << Level(900, 50), Level(800, 10) >>),
     Book(<< Level(1300, 30), Level(1400, 10) >>, << Level(1100, 50), Level(1000, 10) >>),
     Book(<< >>, << Level(900, 50) >>) >>

\* the order-book and trade-tick notifications: each book for the future,
\* one for the other instrument
BookInputs ==
  {[instrument |-> "FUTURE", book |-> b] : b \in 1..Len(Books)}
    \cup {[instrument |-> "ETF", book |-> 2]}

OrderIds == 0..MaxId

\* fills: price and volume; the volumes reach the limit in one fill or
\* exceed it; HalfWord is the volume whose cast to long is the most negative
\* long, Word - 50 one whose cast to long is -50
FillInputs ==
  {[price |-> 900, volume |-> 50], [price |-> 1100, volume |-> 100],
   [price |-> 900, volume |-> 150], [price |-> 1100, volume |-> HalfWord],
   [price |-> 900, volume |-> Word - 50]}

\* status: remaining volume and fees
StatusInputs ==
  {[remaining |-> 0, fees |-> 0], [remaining |-> 5, fees |-> 3],
   [remaining |-> 5, fees |-> 0 - 2]}

Ids(out, kinds) == {out[i].id : i \in {j \in 1..Len(out) : out[j].msg \in kinds}}

(***************************************************************************)
(* One action per handler.                                                 *)
(***************************************************************************)
Snapshot == [t |-> trader, closed |-> closed, issued |-> issued]

Init ==
  /\ trader = TraderInit
  /\ ichimoku = IchimokuInit
  /\ sent = << >>
  /\ event = NoEvent
  /\ closed = {}
  /\ issued = {}
  /\ hedged = {}
  /\ steps = 0
  /\ before = [t |-> TraderInit, closed |-> {}, issued |-> {}]
  /\ windowSize = 1
  /\ window = [buffer |-> Zeros(1), index |-> 0, count |-> 0, sum |-> 0]
  /\ pushed = << >>
  /\ live = EmptyMap
  /\ net = 0

OrderBookMessage ==
  \E in \in BookInputs :
    \E r \in {OrderBookMessageHandler(trader, ichimoku, in.instrument, Books[in.book])} :
       /\ steps < MaxSteps
       /\ r.t.mNextMessageId <= MaxId + 1
       /\ trader' = r.t
       /\ ichimoku' = r.g
       /\ sent' = r.out
       /\ event' = [NoEvent EXCEPT !.type = "OrderBook",
                                   !.instrument = in.instrument, !.book = in.book]
       /\ issued' = issued \cup Ids(r.out, {"Insert", "Hedge"})
       /\ steps' = steps + 1
       /\ before' = Snapshot
       /\ UNCHANGED << closed, hedged, windowVars, exchangeVars >>

OrderFilledMessage ==
  \E id \in OrderIds, in \in FillInputs, absOfMin \in BOOLEAN :
    \E r \in {OrderFilledMessageHandler(trader, id, in.price, in.volume, absOfMin)} :
       /\ steps < MaxSteps
       /\ r.t.mNextMessageId <= MaxId + 1
       /\ trader' = r.t
       /\ sent' = r.out
       /\ event' = [NoEvent EXCEPT !.type = "OrderFilled", !.id = id,
                                   !.price = in.price, !.volume = in.volume]
       /\ issued' = issued \cup Ids(r.out, {"Insert", "Hedge"})
       /\ steps' = steps + 1
       /\ before' = Snapshot
       /\ hedged' = hedged \cup Ids(r.out, {"Hedge"})
       /\ UNCHANGED << ichimoku, closed, windowVars, exchangeVars >>

OrderStatusMessage ==
  \E id \in OrderIds, in \in StatusInputs :
    /\ steps < MaxSteps
    /\ trader' = OrderStatusMessageHandler(trader, id, 0, in.remaining, in.fees)
    /\ sent' = << >>
    /\ event' = [NoEvent EXCEPT !.type = "OrderStatus", !.id = id,
                                !.remaining = in.remaining, !.fees = in.fees]
    /\ closed' = IF in.remaining = 0 THEN closed \cup {id} ELSE closed
    /\ steps' = steps + 1
    /\ before' = Snapshot
    /\ UNCHANGED << ichimoku, issued, hedged, windowVars, exchangeVars >>

ErrorMessage ==
  \E id \in OrderIds :
    /\ steps < MaxSteps
    /\ trader' = ErrorMessageHandler(trader, id)
    /\ sent' = << >>
    /\ event' = [NoEvent EXCEPT !.type = "Error", !.id = id]
    /\ closed' = IF ErrorForwards(trader, id) THEN closed \cup {id} ELSE closed
    /\ steps' = steps + 1
    /\ before' = Snapshot
    /\ UNCHANGED << ichimoku, issued, hedged, windowVars, exchangeVars >>

\* HedgeFilledMessageHandler only logs; the notification is for a hedge order
\* that was sent or, hedge or not, for the largest id
HedgeFilledMessage ==
  \E id \in hedged \cup {MaxId}, in \in {[price |-> 900, volume |-> 50]} :
    /\ steps < MaxSteps
    /\ sent' = << >>
    /\ event' = [NoEvent EXCEPT !.type = "HedgeFilled", !.id = id,
                                !.price = in.price, !.volume = in.volume]
    /\ steps' = steps + 1
    /\ before' = Snapshot
    /\ UNCHANGED << trader, ichimoku, closed, issued, hedged, windowVars, exchangeVars >>

\* TradeTicksMessageHandler only logs
TradeTicksMessage ==
  \E in \in {[instrument |-> "FUTURE", book |-> 1]} :
    /\ steps < MaxSteps
    /\ sent' = << >>
    /\ event' = [NoEvent EXCEPT !.type = "TradeTicks",
                                !.instrument = in.instrument, !.book = in.book]
    /\ steps' = steps + 1
    /\ before' = Snapshot
    /\ UNCHANGED << trader, ichimoku, closed, issued, hedged, windowVars, exchangeVars >>

Next ==
  \/ OrderBookMessage
  \/ OrderFilledMessage
  \/ OrderStatusMessage
  \/ ErrorMessage
  \/ HedgeFilledMessage
  \/ TradeTicksMessage

Spec == Init /\ [][Next]_vars

(***************************************************************************)
(* A sliding window on its own: updateCircularBufferWithNewValue driven    *)
(* with its own buffer, index, count and sum.                              *)
(***************************************************************************)
WindowValues == {10, 20, 30, 40}

InitWindow ==
  /\ trader = TraderInit
  /\ ichimoku = IchimokuInit
  /\ sent = << >>
  /\ event = NoEvent
  /\ closed = {}
  /\ issued = {}
  /\ hedged = {}
  /\ steps = 0
  /\ before = [t |-> TraderInit, closed |-> {}, issued |-> {}]
  /\ windowSize \in 1..MaxWindow
  /\ window = [buffer |-> Zeros(windowSize), index |-> 0, count |-> 0, sum |-> 0]
  /\ pushed = << >>
  /\ live = EmptyMap
  /\ net = 0

Push ==
  \E newValue \in WindowValues :
    /\ Len(pushed) < MaxPushes
    /\ window' = updateCircularBufferWithNewValue(window.buffer, window.index,
                   window.count, newValue, window.sum, windowSize)
    /\ pushed' = Append(pushed, newValue)
    /\ UNCHANGED << windowSize, traderVars >>

NextWindow == Push

SpecWindow == InitWindow /\ [][NextWindow]_vars

(***************************************************************************)
(* A well-behaved exchange: it reports fills, statuses and errors only for *)
(* an order that was inserted and has had neither its zero-remaining       *)
(* status nor an error, and it fills an order up to its volume at most.    *)
(* The notifications go through the same handlers.                         *)
(***************************************************************************)
FillVolumes == {50, 100, 200}

\* the open orders once the InsertOrders of out have reached the exchange
Opened(orders, out) ==
  LET inserts == {i \in 1..Len(out) : out[i].msg = "Insert"}
      slot(id) == CHOOSE i \in inserts : out[i].id = id
  IN [id \in (DOMAIN orders) \cup {out[i].id : i \in inserts} |->
        IF id \in DOMAIN orders
          THEN orders[id]
          ELSE [side |-> out[slot(id)].side, remaining |-> out[slot(id)].volume]]

Without(orders, id) == [x \in (DOMAIN orders) \ {id} |-> orders[x]]

ExchangeOrderBook ==
  \E in \in BookInputs :
    \E r \in {OrderBookMessageHandler(trader, ichimoku, in.instrument, Books[in.book])} :
       /\ steps < MaxExchangeSteps
       /\ r.t.mNextMessageId <= MaxExchangeId + 1
       /\ trader' = r.t
       /\ ichimoku' = r.g
       /\ sent' = r.out
       /\ event' = [NoEvent EXCEPT !.type = "OrderBook",
                                   !.instrument = in.instrument, !.book = in.book]
       /\ issued' = issued \cup Ids(r.out, {"Insert", "Hedge"})
       /\ steps' = steps + 1
       /\ before' = Snapshot
       /\ live' = Opened(live, r.out)
       /\ UNCHANGED << closed, hedged, net, windowVars >>

ExchangeFill ==
  \E id \in DOMAIN live, volume \in FillVolumes, absOfMin \in BOOLEAN :
    \E r \in {OrderFilledMessageHandler(trader, id, 900, volume, absOfMin)} :
       /\ steps < MaxExchangeSteps
       /\ volume <= live[id].remaining
       /\ r.t.mNextMessageId <= MaxExchangeId + 1
       /\ trader' = r.t
       /\ sent' = r.out
       /\ event' = [NoEvent EXCEPT !.type = "OrderFilled", !.id = id,
                                   !.price = 900, !.volume = volume]
       /\ issued' = issued \cup Ids(r.out, {"Insert", "Hedge"})
       /\ hedged' = hedged \cup Ids(r.out, {"Hedge"})
       /\ steps' = steps + 1
       /\ before' = Snapshot
       /\ live' = [live EXCEPT ![id].remaining = @ - volume]
       /\ net' = IF live[id].side = "BUY" THEN net + volume ELSE net - volume
       /\ UNCHANGED << ichimoku, closed, windowVars >>

\* the status of an open order: its volume still to fill, or zero when the
\* order is filled or cancelled, which closes it
ExchangeStatus ==
  \E id \in DOMAIN live : \E remaining \in {0, live[id].remaining} :
    /\ steps < MaxExchangeSteps
    /\ trader' = OrderStatusMessageHandler(trader, id, 0, remaining, 3)
    /\ sent' = << >>
    /\ event' = [NoEvent EXCEPT !.type = "OrderStatus", !.id = id,
                                !.remaining = remaining, !.fees = 3]
    /\ closed' = IF remaining = 0 THEN closed \cup {id} ELSE closed
    /\ steps' = steps + 1
    /\ before' = Snapshot
    /\ live' = IF remaining = 0 THEN Without(live, id) ELSE live
    /\ UNCHANGED << ichimoku, issued, hedged, net, windowVars >>

\* the error of an open order, which closes it
ExchangeError ==
  \E id \in DOMAIN live :
    /\ steps < MaxExchangeSteps
    /\ trader' = ErrorMessageHandler(trader, id)
    /\ sent' = << >>
    /\ event' = [NoEvent EXCEPT !.type = "Error", !.id = id]
    /\ closed' = closed \cup {id}
    /\ steps' = steps + 1
    /\ before' = Snapshot
    /\ live' = Without(live, id)
    /\ UNCHANGED << ichimoku, issued, hedged, net, windowVars >>

NextExchange ==
  \/ ExchangeOrderBook
  \/ ExchangeFill
  \/ ExchangeStatus
  \/ ExchangeError

SpecExchange == Init /\ [][NextExchange]_vars

(***************************************************************************)
(* Properties.                                                             *)
(***************************************************************************)
Sent(kind) == {sent[i] : i \in {j \in 1..Len(sent) : sent[j].msg = kind}}

IsTracked(t, id) == id \in t.mAsks \/ id \in t.mBids

\* C1: position invariant: after any sequence of OrderBook, OrderFilled,
\* OrderStatus and Error notifications (any ids, any volumes, any order) the
\* tracked position satisfies |mPosition| <= POSITION_LIMIT in every
\* reachable state.
C1_PositionWithinLimit ==
  Abs(trader.mPosition) <= POSITION_LIMIT

\* C2: duplicate cancels are suppressed: while the cancel of an order id is
\* pending (pending-cancel flag set for the tracked id) no later order-book
\* update sends a further CancelOrder for that same id.
C2_NoDuplicateCancel ==
  event.type = "OrderBook" =>
    /\ (before.t.PendingCancelAsk /\ before.t.mAskId # 0)
         => CancelOrder(before.t.mAskId) \notin Sent("Cancel")
    /\ (before.t.PendingCancelBid /\ before.t.mBidId # 0)
         => CancelOrder(before.t.mBidId) \notin Sent("Cancel")

\* C3 as claimed: every OrderFilled notification results in exactly one
\* HedgeOrder for the filled volume, whatever the id and however the fill is
\* ordered relative to that order's status and error notifications.
C3_EveryFillHedged ==
  event.type = "OrderFilled" =>
    /\ Len(sent) = 1
    /\ sent[1].msg = "Hedge"
    /\ sent[1].volume = event.volume

\* C3 as amended: an OrderFilled for an id that is in the active-ask or
\* active-bid set when it arrives results in exactly one HedgeOrder for the
\* filled volume (BUY for an ask fill, SELL for a bid fill, with a fresh id),
\* whether or not the position update was applied; an OrderFilled for an id
\* in neither set (never sent, or already closed by a zero-remaining status
\* or an error) sends nothing.
C3_TrackedFillHedged ==
  event.type = "OrderFilled" =>
    IF event.id \in before.t.mAsks
      THEN sent = << HedgeOrder(before.t.mNextMessageId, "BUY", event.volume) >>
    ELSE IF event.id \in before.t.mBids
      THEN sent = << HedgeOrder(before.t.mNextMessageId, "SELL", event.volume) >>
    ELSE sent = << >>

\* C3 witness: a fill of a tracked bid that the limit check rejected (the
\* position is as before) and that was hedged all the same.
C3_RejectedFillHedged ==
  /\ event.type = "OrderFilled"
  /\ event.id \in before.t.mBids
  /\ before.t.mPosition + event.volume > POSITION_LIMIT
  /\ trader.mPosition = before.t.mPosition
  /\ sent = << HedgeOrder(before.t.mNextMessageId, "SELL", event.volume) >>

\* C4: an OrderStatus for an unknown id (not the tracked ask or bid id and in
\* neither active set), with any remaining volume, is ignored: position,
\* tracked ids, pending-cancel flags, active sets, the long and short
\* inventory maps and the lot-size map are all unchanged.
C4_UnknownStatusIgnored ==
  ( /\ event.type = "OrderStatus"
    /\ event.id # before.t.mAskId
    /\ event.id # before.t.mBidId
    /\ ~IsTracked(before.t, event.id) )
  => trader = before.t

\* C5: idempotence of terminal status: once an OrderStatus with zero
\* remaining volume has been processed for an id, any later OrderStatus for
\* that id (zero or nonzero remaining, any fees) leaves the position and the
\* long and short inventory maps unchanged.
C5_TerminalStatusIdempotent ==
  (event.type = "OrderStatus" /\ event.id \in before.closed) =>
    /\ trader.mPosition = before.t.mPosition
    /\ trader.longInventory = before.t.longInventory
    /\ trader.shortInventory = before.t.shortInventory

\* the members after the cleanup of a tracked order: tracked id of its side
\* zero, pending-cancel flag of its side false, id out of the active set,
\* everything else as it was
AfterCleanup(t, id) ==
  IF id \in t.mAsks
    THEN [t EXCEPT !.mAskId = 0, !.PendingCancelAsk = FALSE, !.mAsks = @ \ {id}]
    ELSE [t EXCEPT !.mBidId = 0, !.PendingCancelBid = FALSE, !.mBids = @ \ {id}]

\* C6: Error(id) with a nonzero id in the active-ask or active-bid set leaves
\* the post-state of OrderStatus(id, 0, 0, 0): tracked id of that side 0,
\* its pending-cancel flag cleared, the id out of the active set; Error with
\* id 0 or an id in neither set changes nothing; either way nothing is sent.
C6_ErrorCleansUpLikeTerminalStatus ==
  /\ event.type = "Error" =>
       /\ sent = << >>
       /\ trader = IF event.id # 0 /\ IsTracked(before.t, event.id)
                     THEN AfterCleanup(before.t, event.id)
                     ELSE before.t
  /\ ( /\ event.type = "OrderStatus"
       /\ event.remaining = 0
       /\ event.id # 0
       /\ IsTracked(before.t, event.id) )
     => trader = AfterCleanup(before.t, event.id)

\* C6 witness: an Error for the tracked ask whose cancel was pending.
C6_ErrorOnPendingCancel ==
  /\ event.type = "Error"
  /\ event.id # 0
  /\ event.id = before.t.mAskId
  /\ event.id \in before.t.mAsks
  /\ before.t.PendingCancelAsk
  /\ trader.mAskId = 0
  /\ ~trader.PendingCancelAsk

\* C7: quote suppression: with the position at +POSITION_LIMIT the bid size
\* is exactly 0 and an order-book update sends no BUY InsertOrder; with the
\* position at -POSITION_LIMIT the ask size is exactly 0 and no SELL
\* InsertOrder is sent.
C7_QuoteSuppression ==
  /\ trader.mPosition = POSITION_LIMIT => bidQuantity(trader.mPosition) = 0
  /\ trader.mPosition = 0 - POSITION_LIMIT => askQuantity(trader.mPosition) = 0
  /\ (event.type = "OrderBook" /\ before.t.mPosition = POSITION_LIMIT)
       => \A m \in Sent("Insert") : m.side # "BUY"
  /\ (event.type = "OrderBook" /\ before.t.mPosition = 0 - POSITION_LIMIT)
       => \A m \in Sent("Insert") : m.side # "SELL"

\* C7 witness: an update for the future at +POSITION_LIMIT with no bid
\* outstanding and a new nonzero bid target, so that only the size stands
\* between the update and a BUY InsertOrder.
C7_SuppressedBid ==
  /\ event.type = "OrderBook"
  /\ event.instrument = "FUTURE"
  /\ before.t.mPosition = POSITION_LIMIT
  /\ before.t.mBidId = 0
  /\ ~before.t.PendingCancelBid
  /\ newBidPrice(before.t.mPosition, Books[event.book]) \notin {0, before.t.mBidPrice}
  /\ trader.mBidPrice = newBidPrice(before.t.mPosition, Books[event.book])
  /\ trader.mBidId = 0
  /\ \A m \in Sent("Insert") : m.side # "BUY"

\* the position a fill of a tracked order would lead to, as a number
FilledPosition(t, id, volume) ==
  IF id \in t.mAsks THEN t.mPosition - volume ELSE t.mPosition + volume

\* C8: a fill of a tracked order whose application would make |position| or
\* the hedge-adjusted exposure exceed POSITION_LIMIT leaves mPosition
\* unchanged, while the inventory map of that side and the lot-size map hold
\* an entry for the order and a hedge order for the volume is sent.
C8_RejectedFillKeepsPosition ==
  ( /\ event.type = "OrderFilled"
    /\ IsTracked(before.t, event.id)
    /\ \/ Abs(FilledPosition(before.t, event.id, event.volume)) > POSITION_LIMIT
       \/ Abs(FilledPosition(before.t, event.id, event.volume)
                + (IF event.id \in before.t.mAsks THEN before.t.mHedges
                                                  ELSE 0 - before.t.mHedges))
            > POSITION_LIMIT )
  => /\ trader.mPosition = before.t.mPosition
     /\ event.id \in DOMAIN trader.lotSize
     /\ IF event.id \in before.t.mAsks
          THEN event.id \in DOMAIN trader.shortInventory
          ELSE event.id \in DOMAIN trader.longInventory
     /\ Len(sent) = 1 /\ sent[1].msg = "Hedge" /\ sent[1].volume = event.volume

\* C9: every outbound id (InsertOrder and HedgeOrder ids, from one counter
\* starting at 1) is nonzero and strictly greater than every id sent before
\* it, so no id is ever reused.
C9_IdsFreshAndIncreasing ==
  /\ \A i \in 1..Len(sent) :
       sent[i].msg \in {"Insert", "Hedge"} =>
         /\ sent[i].id # 0
         /\ \A old \in before.issued : sent[i].id > old
         /\ \A j \in 1..(i - 1) :
              sent[j].msg \in {"Insert", "Hedge"} => sent[i].id > sent[j].id
  /\ \A id \in issued : 1 <= id /\ id < trader.mNextMessageId

\* C9 witness: an update that sends two InsertOrders after earlier ids were
\* handed out.
C9_TwoInsertsAfterOthers ==
  /\ before.issued # {}
  /\ Cardinality(Sent("Insert")) = 2

\* C10: a sliding window of capacity N driven only by
\* updateCircularBufferWithNewValue: after k pushes count = min(k, N), the
\* cursor is k mod N and sum is the sum of the last min(k, N) values pushed;
\* N = 3 with pushes 10, 20, 30, 40 gives the sums 10, 30, 60, 90 and the
\* buffer [40, 20, 30].
C10_WindowSum ==
  LET k == Len(pushed)
      n == Min(k, windowSize)
  IN /\ window.count = n
     /\ window.index = k % windowSize
     /\ window.sum = SeqSum(SubSeq(pushed, k - n + 1, k))
     /\ (windowSize = 3 /\ k <= 4 /\ pushed = SubSeq(<< 10, 20, 30, 40 >>, 1, k))
          => /\ window.sum = << 0, 10, 30, 60, 90 >>[k + 1]
             /\ (k = 4 => window.buffer = << 40, 20, 30 >>)

\* C10 witness: the fourth push of 10, 20, 30, 40 into a window of three
\* has overwritten the oldest slot.
C10_ScenarioA ==
  /\ windowSize = 3
  /\ pushed = << 10, 20, 30, 40 >>
  /\ window.buffer = << 40, 20, 30 >>
  /\ window.sum = 90
  /\ window.count = 3

\* the target prices of the update the last OrderBook notification carried
TargetAsk == newAskPrice(before.t.mPosition, Books[event.book])
TargetBid == newBidPrice(before.t.mPosition, Books[event.book])

FutureUpdate == event.type = "OrderBook" /\ event.instrument = "FUTURE"

\* C11: while fewer samples than the leading-span-B window period have been
\* processed (the sample of the update included), no order-book update
\* sends an InsertOrder.
C11_NoQuotesBeforeWindowFull ==
  (event.type = "OrderBook" /\ ichimoku.leadingSpanBCount < leading_span_b_window)
    => Sent("Insert") = {}

\* C12: pipelined cancel and replace: an update for the future that finds a
\* side Active (tracked id nonzero, no cancel pending) and computes a nonzero
\* target price other than the quoted one, with a nonzero size, sends the
\* CancelOrder of the old id and, in the same update, an InsertOrder with a
\* fresh id at the target price.
C12_PipelinedReplace ==
  FutureUpdate =>
    /\ ( /\ before.t.mAskId # 0 /\ ~before.t.PendingCancelAsk
         /\ TargetAsk \notin {0, before.t.mAskPrice}
         /\ askQuantity(before.t.mPosition) > 0 )
       => /\ CancelOrder(before.t.mAskId) \in Sent("Cancel")
          /\ \E m \in Sent("Insert") :
               /\ m.side = "SELL" /\ m.price = TargetAsk
               /\ m.id \notin before.issued
    /\ ( /\ before.t.mBidId # 0 /\ ~before.t.PendingCancelBid
         /\ TargetBid \notin {0, before.t.mBidPrice}
         /\ bidQuantity(before.t.mPosition) > 0 )
       => /\ CancelOrder(before.t.mBidId) \in Sent("Cancel")
          /\ \E m \in Sent("Insert") :
               /\ m.side = "BUY" /\ m.price = TargetBid
               /\ m.id \notin before.issued

\* the books that quote both sides
TwoSided == {b \in 1..Len(Books) :
               Books[b].askPrices[1] # 0 /\ Books[b].bidPrices[1] # 0}

\* C13: inventory skew: on one and the same order-book snapshot a long
\* (positive) position gives lower target ask and bid prices than a flat
\* position does, and a short position gives higher ones.
C13_InventorySkew ==
  \A b \in TwoSided :
    /\ trader.mPosition > 0 =>
         /\ newAskPrice(trader.mPosition, Books[b]) < newAskPrice(0, Books[b])
         /\ newBidPrice(trader.mPosition, Books[b]) < newBidPrice(0, Books[b])
    /\ trader.mPosition < 0 =>
         /\ newAskPrice(trader.mPosition, Books[b]) > newAskPrice(0, Books[b])
         /\ newBidPrice(trader.mPosition, Books[b]) > newBidPrice(0, Books[b])

\* C14: after every sample the running sum of each indicator window is the
\* sum of its own buffer's filled slots (the slots not yet filled hold 0);
\* in particular leadingSpanBSum is the sum of the conversion-line values
\* held by the leading-span-B window.
C14_WindowSums ==
  /\ ichimoku.conversionLineSum = SeqSum(ichimoku.conversionLineBuffer)
  /\ ichimoku.baselineSum = SeqSum(ichimoku.baselineBuffer)
  /\ ichimoku.leadingSpanBSum = SeqSum(ichimoku.leadingSpanBBuffer)

\* C15: after every OrderFilled(id, price, volume) for an id in the
\* active-bid set longInventory[id] = price and lotSize[id] = volume, for an
\* id in the active-ask set shortInventory[id] = price and lotSize[id] =
\* volume, a second or later fill of the order and a fill after a
\* nonzero-remaining status of the order included.
C15_FillRecorded ==
  event.type = "OrderFilled" =>
    /\ event.id \in before.t.mBids =>
         /\ MapGet(trader.longInventory, event.id) = event.price
         /\ MapGet(trader.lotSize, event.id) = event.volume
    /\ event.id \in before.t.mAsks =>
         /\ MapGet(trader.shortInventory, event.id) = event.price
         /\ MapGet(trader.lotSize, event.id) = event.volume

\* C16: the hedge counter tracks the lots hedged: once the HedgeFilled
\* notification of a hedge order that was sent for a fill has been
\* processed, mHedges reflects the hedged volume (it is not 0), so that the
\* hedge-adjusted test of a fill can differ from the plain one.
C16_HedgesTracked ==
  (event.type = "HedgeFilled" /\ event.id \in hedged /\ event.volume > 0)
    => trader.mHedges # 0

\* C17: in every reachable state each quote side is Idle (tracked id 0, no
\* cancel pending), Active (id nonzero, no cancel pending) or PendingCancel
\* (id nonzero, cancel pending): a tracked id of 0 with the pending-cancel
\* flag set is unreachable.
C17_SideStates ==
  /\ trader.mAskId = 0 => ~trader.PendingCancelAsk
  /\ trader.mBidId = 0 => ~trader.PendingCancelBid

\* C17 witness: the zero-remaining status of the ask whose cancel was
\* pending takes the side from PendingCancel to Idle.
C17_PendingCancelAcknowledged ==
  /\ event.type = "OrderStatus"
  /\ event.remaining = 0
  /\ event.id = before.t.mAskId
  /\ before.t.mAskId # 0
  /\ before.t.PendingCancelAsk
  /\ trader.mAskId = 0
  /\ ~trader.PendingCancelAsk

\* C18: every InsertOrder has a volume v with 1 <= v <= LOT_SIZE, v <=
\* POSITION_LIMIT + position for a SELL and v <= POSITION_LIMIT - position
\* for a BUY, the position being that at the time the order is sent.
C18_InsertVolumeWithinCapacity ==
  event.type = "OrderBook" =>
    \A m \in Sent("Insert") :
      /\ 1 <= m.volume /\ m.volume <= LOT_SIZE
      /\ m.side = "SELL" => m.volume <= POSITION_LIMIT + before.t.mPosition
      /\ m.side = "BUY" => m.volume <= POSITION_LIMIT - before.t.mPosition

\* the books handed to WeightedAverageSpread: those of the notifications and
\* one whose only two-sided level has no volume on the ask side
SpreadBooks ==
  {Books[b] : b \in 1..Len(Books)}
    \cup {Book(<< Level(1100, 0) >>, << Level(900, 50) >>)}

\* C19: no division by zero: the count each window average of a sample is
\* divided by is at least 1, the very first sample included, and
\* WeightedAverageSpread divides by the total volume only when it is above
\* 0, returning 0 when no level has both prices or the total is 0.
C19_NoDivisionByZero ==
  /\ FutureUpdate =>
       /\ ichimoku.conversionLineCount >= 1
       /\ ichimoku.baselineCount >= 1
  /\ \A book \in SpreadBooks :
       /\ WeightedAverageSpread(book).den >= 1
       /\ SpreadSums(book, 1).total = 0 =>
            WeightedAverageSpread(book) = [num |-> 0, den |-> 1]
       /\ SpreadSums(book, 1).total > 0 =>
            WeightedAverageSpread(book).den = SpreadSums(book, 1).total

\* C19 witness: the very first sample, taken from a book with no two-sided
\* level: both averages divide by 1 and the spread is the returned 0, the
\* bid target being the best bid itself.
C19_FirstSampleNoSpread ==
  /\ FutureUpdate
  /\ steps = 1
  /\ ichimoku.conversionLineCount = 1
  /\ ichimoku.baselineCount = 1
  /\ SpreadSums(Books[event.book], 1).total = 0
  /\ trader.mBidPrice = Books[event.book].bidPrices[1]

\* C20: an OrderBook notification for an instrument other than the future,
\* a TradeTicks and a HedgeFilled notification leave the trader's members
\* (position, tracked ids and prices, pending flags, active sets, inventory
\* maps, id counter) and the indicator's windows unchanged and send nothing.
C20_OnlyFutureBooksAct ==
  [][ ( \/ event'.type \in {"TradeTicks", "HedgeFilled"}
        \/ (event'.type = "OrderBook" /\ event'.instrument # "FUTURE") )
      => /\ trader' = trader
         /\ ichimoku' = ichimoku
         /\ sent' = << >> ]_vars

\* C20 witness: a book of the other instrument arrives while both sides are
\* Active at prices other than that book's targets, and nothing moves.
C20_OtherInstrumentIgnored ==
  /\ event.type = "OrderBook"
  /\ event.instrument # "FUTURE"
  /\ before.t.mAskId # 0 /\ ~before.t.PendingCancelAsk
  /\ before.t.mBidId # 0 /\ ~before.t.PendingCancelBid
  /\ TargetAsk \notin {0, before.t.mAskPrice}
  /\ TargetBid \notin {0, before.t.mBidPrice}
  /\ trader = before.t
  /\ sent = << >>

\* C21: Ichimoku returns NEUTRAL for every sample: the lagging-span value
\* and the value it is compared with are read from the same slot of the
\* lagging-span buffer, whatever the cursor, so the lagging span is neither
\* above nor below.  Stated of the sample any book would give in any
\* reachable state of the indicator.
C21_SignalAlwaysNeutral ==
  /\ \A index \in 0..(baseline_size - 1) :
       LaggingComparedSlot(index, Len(ichimoku.laggingSpanBuffer)) = index
  /\ \A b \in 1..Len(Books) : Ichimoku(ichimoku, Books[b]).signal = "NEUTRAL"

\* C21 witness: two samples at different prices are in the lagging-span
\* buffer and the next sample would have the price above the cloud or above
\* both lines, and the signal is NEUTRAL all the same.
C21_NeutralAbovePriceLines ==
  /\ ichimoku.laggingSpanCount >= 2
  /\ ichimoku.laggingSpanBuffer[1] # ichimoku.laggingSpanBuffer[2]
  /\ \E b \in TwoSided :
       /\ Ichimoku(ichimoku, Books[b]).priceUp
       /\ Ichimoku(ichimoku, Books[b]).signal = "NEUTRAL"

\* the trader and the instructions after the first ask and bid blocks alone
FirstBlocks ==
  ReplaceBid(ReplaceAsk([t |-> before.t, out |-> << >>],
                        TargetAsk, askQuantity(before.t.mPosition)),
             TargetBid, bidQuantity(before.t.mPosition))

\* C22: one update for the future sends at most one CancelOrder and at most
\* one InsertOrder a side; the signal blocks and the profit-taking loops
\* send nothing and change nothing, the first ask and bid blocks having set
\* the quoted prices to the targets: what is sent is what those two blocks
\* send, whatever the signal and the inventory maps.
C22_OnlyFirstBlocksAct ==
  FutureUpdate =>
    /\ sent = FirstBlocks.out
    /\ trader = FirstBlocks.t
    /\ Cardinality({i \in 1..Len(sent) : sent[i].msg = "Cancel"
                                           /\ sent[i].id = before.t.mAskId}) <= 1
    /\ Cardinality({i \in 1..Len(sent) : sent[i].msg = "Cancel"
                                           /\ sent[i].id = before.t.mBidId}) <= 1
    /\ \A i \in 1..Len(sent) :
         sent[i].msg = "Cancel" => sent[i].id \in {before.t.mAskId, before.t.mBidId}
    /\ \A side \in {"SELL", "BUY"} :
         Cardinality({i \in 1..Len(sent) : sent[i].msg = "Insert"
                                             /\ sent[i].side = side}) <= 1

\* C22 witness: an update outside the unload range with a long inventory
\* entry below the mid price, so that the long loop's test of the entry
\* passes, and the one CancelOrder of the ask is all the ask side sends.
C22_ProfitLoopSilent ==
  /\ FutureUpdate
  /\ before.t.mPosition >= UNLOAD
  /\ \E id \in DOMAIN before.t.longInventory :
       before.t.longInventory[id] < MidPrice(Books[event.book])
  /\ before.t.mAskId # 0
  /\ TargetAsk \notin {0, before.t.mAskPrice}
  /\ Cardinality({i \in 1..Len(sent) : sent[i].msg = "Cancel"
                                         /\ sent[i].id = before.t.mAskId}) = 1

\* C23: in every reachable state the active-ask set is {mAskId} when mAskId
\* is nonzero and empty otherwise, and likewise mBids with mBidId: one order
\* a side at most is tracked, and a fill or an error for any other id is
\* treated as that of an unknown order (no hedge, no cleanup).
C23_OneOrderPerSide ==
  /\ trader.mAsks = (IF trader.mAskId # 0 THEN {trader.mAskId} ELSE {})
  /\ trader.mBids = (IF trader.mBidId # 0 THEN {trader.mBidId} ELSE {})
  /\ ( /\ event.type = "OrderFilled"
       /\ event.id \notin {before.t.mAskId, before.t.mBidId} \ {0} )
     => /\ sent = << >>
        /\ trader.mPosition = before.t.mPosition
  /\ ( /\ event.type = "Error"
       /\ event.id \notin {before.t.mAskId, before.t.mBidId} \ {0} )
     => trader = before.t

\* C23 witness: a fill for an ask that was sent and has been closed arrives
\* while the ask that replaced it is tracked: it is not hedged.
C23_FillOfClosedOrder ==
  /\ event.type = "OrderFilled"
  /\ event.id \in before.issued
  /\ event.id \in before.closed
  /\ before.t.mAskId \notin {0, event.id}
  /\ before.t.mAsks = {before.t.mAskId}
  /\ sent = << >>

\* C24: an InsertOrder of a side is sent only by an update whose nonzero
\* target price differs from the quoted price on record, and such an update
\* records its target whether or not it sends an insert; an update whose
\* target is 0 or the price on record leaves the side as it is, so an Idle
\* side stays Idle while the updates keep giving the price on record.
C24_InsertOnlyOnPriceChange ==
  FutureUpdate =>
    /\ IF TargetAsk \notin {0, before.t.mAskPrice}
         THEN trader.mAskPrice = TargetAsk
         ELSE /\ \A m \in Sent("Insert") : m.side # "SELL"
              /\ trader.mAskId = before.t.mAskId
              /\ trader.mAskPrice = before.t.mAskPrice
              /\ trader.PendingCancelAsk = before.t.PendingCancelAsk
    /\ IF TargetBid \notin {0, before.t.mBidPrice}
         THEN trader.mBidPrice = TargetBid
         ELSE /\ \A m \in Sent("Insert") : m.side # "BUY"
              /\ trader.mBidId = before.t.mBidId
              /\ trader.mBidPrice = before.t.mBidPrice
              /\ trader.PendingCancelBid = before.t.PendingCancelBid

\* C24 witness: the ask was cancelled for a price change, the cancel was
\* acknowledged, and the next update gives the target on record: the side,
\* Idle with room to quote, is left without an order.
C24_IdleSideNotRequoted ==
  /\ FutureUpdate
  /\ before.t.mAskId = 0
  /\ ~before.t.PendingCancelAsk
  /\ before.closed # {}
  /\ TargetAsk # 0
  /\ TargetAsk = before.t.mAskPrice
  /\ askQuantity(before.t.mPosition) > 0
  /\ trader.mAskId = 0
  /\ \A m \in Sent("Insert") : m.side # "SELL"

\* C25: under the well-behaved exchange no fill is rejected by the limit
\* check: every fill moves mPosition by its volume, mPosition is the volume
\* of the bid fills minus that of the ask fills, within the limit.
C25_NoFillRejected ==
  /\ trader.mPosition = net
  /\ Abs(net) <= POSITION_LIMIT
  /\ event.type = "OrderFilled" =>
       /\ IsTracked(before.t, event.id)
       /\ trader.mPosition =
            before.t.mPosition + (IF event.id \in before.t.mBids
                                    THEN event.volume ELSE 0 - event.volume)

\* C25 witness: an ask of LOT_SIZE lots quoted at +POSITION_LIMIT is filled
\* in one fill, taking the position to -POSITION_LIMIT.
C25_LimitToLimit ==
  /\ event.type = "OrderFilled"
  /\ event.volume = LOT_SIZE
  /\ before.t.mPosition = POSITION_LIMIT
  /\ trader.mPosition = 0 - POSITION_LIMIT
  /\ net = 0 - POSITION_LIMIT

====
